---- MODULE Spec2Model ----
(***************************************************************************)
(* EMTP reference implementation (reference/python/emtp.py).               *)
(*                                                                         *)
(* The library is a set of pure functions.  A string is modelled as a      *)
(* sequence of Unicode code points (integers), so that ordering, regular   *)
(* expressions and slicing are computed character by character.  The state *)
(* of the model is one call: the function called (op), its arguments       *)
(* (args) and what it returned or raised (ret).                            *)
(***************************************************************************)
EXTENDS Integers, Sequences, FiniteSets, TLC

VARIABLES op, args, ret

vars == <<op, args, ret>>

\* value of ret before any call has returned
None == [raised |-> FALSE, called |-> FALSE]

Return(v) == [raised |-> FALSE, called |-> TRUE, value |-> v]

Raise(e) == [raised |-> TRUE, called |-> TRUE, error |-> e]

(***************************************************************************)
(* Characters and strings                                                  *)
(***************************************************************************)

\* printable ASCII, code points 35..90 and 97..126, in code point order
AsciiLow == "#$%&'()*+,-./0123456789:;<=>?@ABCDEFGHIJKLMNOPQRSTUVWXYZ"

AsciiHigh == "abcdefghijklmnopqrstuvwxyz{|}~"

IndexIn(c, table) == CHOOSE i \in 1..Len(table) : SubSeq(table, i, i) = c

\* code point of a one-character literal
Ord(c) ==
  IF c = " " THEN 32
  ELSE IF \E i \in 1..Len(AsciiLow) : SubSeq(AsciiLow, i, i) = c
       THEN 34 + IndexIn(c, AsciiLow)
       ELSE 96 + IndexIn(c, AsciiHigh)

\* a string literal as a sequence of code points
S(lit) == [i \in 1..Len(lit) |-> Ord(SubSeq(lit, i, i))]

RECURSIVE ConcatRange(_, _, _)
\* parts[lo] + ... + parts[hi], by halves
ConcatRange(parts, lo, hi) ==
  IF lo > hi THEN <<>>
  ELSE IF lo = hi THEN parts[lo]
  ELSE LET mid == (lo + hi) \div 2
       IN ConcatRange(parts, lo, mid) \o ConcatRange(parts, mid + 1, hi)

\* "".join(parts)
Concat(parts) == ConcatRange(parts, 1, Len(parts))

\* sep.join(parts)
Join(sep, parts) ==
  Concat([i \in 1..(2 * Len(parts) - 1) |->
            IF i % 2 = 1 THEN parts[(i + 1) \div 2] ELSE sep])

\* the indices of s that satisfy At, ascending
Indices(s, At(_)) == SelectSeq([i \in 1..Len(s) |-> i], At)

\* the maximal runs of characters of s that satisfy P, in order
Runs(s, P(_)) ==
  LET IsStart(i) == P(s[i]) /\ (i = 1 \/ ~P(s[i - 1]))
      IsEnd(i) == P(s[i]) /\ (i = Len(s) \/ ~P(s[i + 1]))
      Between(starts, ends) == [k \in 1..Len(starts) |-> SubSeq(s, starts[k], ends[k])]
  IN Between(Indices(s, IsStart), Indices(s, IsEnd))

RECURSIVE CommonPrefixLen(_, _, _, _)
\* the length of the longest common prefix of a and b, known to lie in lo..hi
CommonPrefixLen(a, b, lo, hi) ==
  IF lo = hi THEN lo
  ELSE LET mid == (lo + hi + 1) \div 2
       IN IF SubSeq(a, 1, mid) = SubSeq(b, 1, mid)
          THEN CommonPrefixLen(a, b, mid, hi)
          ELSE CommonPrefixLen(a, b, lo, mid - 1)

\* Python's < on str: by the first differing code point, a proper prefix first
StrLess(a, b) ==
  LET shorter == IF Len(a) < Len(b) THEN Len(a) ELSE Len(b)
      Differ(k) == IF k = shorter THEN Len(a) < Len(b) ELSE a[k + 1] < b[k + 1]
  IN Differ(CommonPrefixLen(a, b, 0, shorter))

\* sorted(strings) of a set of strings: each string at its rank, the number
\* of strings of the set that are smaller
SortedStrings(strings) ==
  LET ranked == {<<Cardinality({y \in strings : StrLess(y, x)}), x>> : x \in strings}
  IN [i \in 1..Cardinality(strings) |-> (CHOOSE p \in ranked : p[1] = i - 1)[2]]

\* the elements of a list, as a set
Range(seq) == {seq[i] : i \in 1..Len(seq)}

\* str.isspace for the characters of the model: ASCII whitespace and NBSP
IsSpace(c) == c \in {9, 10, 11, 12, 13, 32, 160}

\* re \d on str: any Unicode decimal digit (ASCII 0-9, fullwidth 0-9 here)
IsDigit(c) == c \in 48..57 \/ c \in 65296..65305

\* int() of one decimal digit character
DigitValue(c) == IF c \in 48..57 THEN c - 48 ELSE c - 65296

IsAsciiUpperOrDigit(c) == c \in 65..90 \/ c \in 48..57

NotSpace(c) == ~IsSpace(c)

\* str.lstrip()
LStrip(s) ==
  LET From(kept) == IF kept = <<>> THEN <<>> ELSE SubSeq(s, kept[1], Len(s))
  IN From(Indices(s, LAMBDA i : NotSpace(s[i])))

\* str.rstrip()
RStrip(s) ==
  LET UpTo(kept) == IF kept = <<>> THEN <<>> ELSE SubSeq(s, 1, kept[Len(kept)])
  IN UpTo(Indices(s, LAMBDA i : NotSpace(s[i])))

\* str.strip()
Strip(s) == LStrip(RStrip(s))

\* unicodedata.normalize("NFKD", c) for one character
Nfkd(c) ==
  CASE c = 233 -> <<101, 769>>            \* e acute -> e, combining acute
    [] c = 160 -> <<32>>                   \* no-break space -> space
    [] c \in 65296..65305 -> <<c - 65248>> \* fullwidth digit -> ASCII digit
    [] c = 64257 -> <<102, 105>>           \* ligature fi -> f, i
    [] OTHER -> <<c>>

\* unicodedata.combining(c) # 0
Combining(c) == c \in 768..879

\* str.upper() for one character
Upper(c) ==
  CASE c \in 97..122 -> <<c - 32>>
    [] c = 223 -> <<83, 83>>               \* sharp s -> SS
    [] OTHER -> <<c>>

FlatMap(F(_), s) == Concat([i \in 1..Len(s) |-> F(s[i])])

\* re.sub(r"\s+", " ", s): one space for each maximal run of whitespace
CollapseSpaces(s) ==
  LET Keep(kept) == [k \in 1..Len(kept) |-> IF IsSpace(s[kept[k]]) THEN 32 ELSE s[kept[k]]]
  IN Keep(Indices(s, LAMBDA i : NotSpace(s[i]) \/ i = 1 \/ NotSpace(s[i - 1])))

NotCombining(c) == ~Combining(c)

ReplaceNonAlnum(c) == IF IsAsciiUpperOrDigit(c) THEN <<c>> ELSE <<32>>

\* a plausible slip: the collapse of repeated whitespace left out
normalize_string_nocollapse(s) ==
  Strip(FlatMap(ReplaceNonAlnum,
                FlatMap(Upper, SelectSeq(FlatMap(Nfkd, s), NotCombining))))

normalize_string(s) ==
  LET decomposed == FlatMap(Nfkd, s)
      stripped == SelectSeq(decomposed, NotCombining)
      uppered == FlatMap(Upper, stripped)
      replaced == FlatMap(ReplaceNonAlnum, uppered)
  IN Strip(CollapseSpaces(replaced))

(***************************************************************************)
(* Specification of normalize_string calls                                 *)
(***************************************************************************)

MaxStrLen == 4

\* a, Z, 7, '.', space, e acute, combining acute, sharp s, no-break space
StringAlphabet == {97, 90, 55, 46, 32, 233, 769, 223, 160}

RECURSIVE StringsUpTo(_, _)
StringsUpTo(alphabet, n) ==
  IF n = 0 THEN {<<>>}
  ELSE LET shorter == StringsUpTo(alphabet, n - 1)
       IN shorter \cup {Append(s, c) : s \in shorter, c \in alphabet}

StringInputs == StringsUpTo(StringAlphabet, MaxStrLen)

InitString ==
  /\ op = "start"
  /\ args \in [s : StringInputs]
  /\ ret = None

CallNormalizeString ==
  /\ op = "start"
  /\ op' = "normalize_string"
  /\ ret' = Return(normalize_string(args.s))
  /\ UNCHANGED args

\* the caller feeds the result back in
CallNormalizeStringAgain ==
  /\ op = "normalize_string"
  /\ op' = "normalize_string_again"
  /\ args' = [s |-> ret.value]
  /\ ret' = Return(normalize_string(ret.value))

NextString == CallNormalizeString \/ CallNormalizeStringAgain

SpecString == InitString /\ [][NextString]_vars

\* C6: normalize_string applied to its own result returns it unchanged, and a
\* result holds only A-Z, 0-9 and single interior spaces
C6_Idempotent ==
  /\ op = "normalize_string_again" => ret.value = args.s
  /\ op \in {"normalize_string", "normalize_string_again"} =>
       LET r == ret.value
       IN /\ \A i \in 1..Len(r) : IsAsciiUpperOrDigit(r[i]) \/ r[i] = 32
          /\ r # <<>> => r[1] # 32 /\ r[Len(r)] # 32
          /\ \A i \in 1..(Len(r) - 1) : ~(r[i] = 32 /\ r[i + 1] = 32)

\* a second application acted on a result whose single interior space came
\* from two adjacent non-alphanumerics
C6_Witness ==
  /\ op = "normalize_string_again"
  /\ args.s = <<65, 32, 55>>
  /\ ret.value = <<65, 32, 55>>

(***************************************************************************)
(* Names                                                                   *)
(***************************************************************************)

HONORIFICS ==
  {S(word) : word \in {"MR", "MRS", "MS", "MISS", "DR", "PROF", "REV", "SIR", "MADAM"}}

SUFFIX_KEYS ==
  {S(word) : word \in {"JR", "JUNIOR", "SR", "SENIOR", "I", "II", "III", "IV", "V", "VI"}}

\* SUFFIX_MAP[t]
SUFFIX_MAP(t) ==
  CASE t = S("JUNIOR") -> S("JR")
    [] t = S("SENIOR") -> S("SR")
    [] OTHER -> t

\* str.split(): the maximal runs of non-whitespace
Split(s) == Runs(s, NotSpace)

ParsedName(given, middles, family, suffix) ==
  [given |-> given, middles |-> middles, family |-> family, suffix |-> suffix]

NonEmpty(p) == p # <<>>

\* ParsedName.full
full(name) ==
  Join(<<32>>, SelectSeq(<<name.given>> \o name.middles \o <<name.family>>, NonEmpty))

\* ParsedName.given_family
given_family(name) == Strip(name.given \o <<32>> \o name.family)

\* ParsedName.given_family_suffix
given_family_suffix(name) ==
  IF name.suffix # <<>>
  THEN Strip(name.given \o <<32>> \o name.family \o <<32>> \o name.suffix)
  ELSE given_family(name)

\* the first characters of the non-empty middles
MiddleInitials(name) ==
  LET ms == SelectSeq(name.middles, NonEmpty)
  IN [i \in 1..Len(ms) |-> <<ms[i][1]>>]

\* ParsedName.initials_family
initials_family(name) ==
  LET first == IF name.given # <<>> THEN <<<<name.given[1]>>>> ELSE <<>>
      initials == first \o MiddleInitials(name)
  IN Strip(Join(<<32>>, initials \o <<name.family>>))

\* a plausible slip: the honorific dropped whenever another token follows
normalize_name_eager(name) ==
  LET Components(tokens, suffix) ==
        IF Len(tokens) = 0 THEN ParsedName(<<>>, <<>>, <<>>, suffix)
        ELSE IF Len(tokens) = 1 THEN ParsedName(tokens[1], <<>>, tokens[1], suffix)
        ELSE ParsedName(tokens[1], SubSeq(tokens, 2, Len(tokens) - 1),
                        tokens[Len(tokens)], suffix)
      ExtractSuffix(tokens) ==
        IF Len(tokens) > 1 /\ tokens[Len(tokens)] \in SUFFIX_KEYS
        THEN Components(SubSeq(tokens, 1, Len(tokens) - 1), SUFFIX_MAP(tokens[Len(tokens)]))
        ELSE Components(tokens, <<>>)
      RemoveHonorific(tokens) ==
        IF tokens = <<>> THEN ParsedName(<<>>, <<>>, <<>>, <<>>)
        ELSE IF Len(tokens) > 1 /\ tokens[1] \in HONORIFICS
        THEN ExtractSuffix(Tail(tokens))
        ELSE ExtractSuffix(tokens)
  IN RemoveHonorific(Split(normalize_string(name)))

normalize_name(name) ==
  LET \* parse into given/middles/family
      Components(tokens, suffix) ==
        IF Len(tokens) = 0 THEN ParsedName(<<>>, <<>>, <<>>, suffix)
        ELSE IF Len(tokens) = 1 THEN ParsedName(tokens[1], <<>>, tokens[1], suffix)
        ELSE ParsedName(tokens[1], SubSeq(tokens, 2, Len(tokens) - 1),
                        tokens[Len(tokens)], suffix)
      \* detect and extract suffix from end
      ExtractSuffix(tokens) ==
        IF Len(tokens) > 1 /\ tokens[Len(tokens)] \in SUFFIX_KEYS
        THEN Components(SubSeq(tokens, 1, Len(tokens) - 1), SUFFIX_MAP(tokens[Len(tokens)]))
        ELSE Components(tokens, <<>>)
      \* remove leading honorific (unless name would become just one token)
      RemoveHonorific(tokens) ==
        IF tokens = <<>> THEN ParsedName(<<>>, <<>>, <<>>, <<>>)
        ELSE IF Len(tokens) > 2 /\ tokens[1] \in HONORIFICS
        THEN ExtractSuffix(Tail(tokens))
        ELSE ExtractSuffix(tokens)
  IN RemoveHonorific(Split(normalize_string(name)))

(***************************************************************************)
(* Specification of normalize_name calls                                   *)
(***************************************************************************)

MaxNameTokens == 4

NameWords == {S("Mr."), S("dr"), S("Jr"), S("Junior"), S("Ann"), S("Lee")}

RECURSIVE WordSeqsUpTo(_, _)
WordSeqsUpTo(words, n) ==
  IF n = 0 THEN {<<>>}
  ELSE LET shorter == WordSeqsUpTo(words, n - 1)
       IN shorter \cup {Append(ws, w) : ws \in shorter, w \in words}

NameInputs == {Join(<<32>>, ws) : ws \in WordSeqsUpTo(NameWords, MaxNameTokens)}

InitName ==
  /\ op = "start"
  /\ args \in [name : NameInputs]
  /\ ret = None

CallNormalizeName ==
  /\ op = "start"
  /\ op' = "normalize_name"
  /\ ret' = Return(normalize_name(args.name))
  /\ UNCHANGED args

NextName == CallNormalizeName

SpecName == InitName /\ [][NextName]_vars

\* C9: normalize_name drops a leading honorific iff more than 2 tokens, then
\* takes a trailing suffix iff more than 1 token remains, then given is the
\* first remaining token, family the last, middles those between; one
\* remaining token gives given = family; no token gives all components empty
C9_NameParse ==
  op = "normalize_name" =>
    LET toks == Split(normalize_string(args.name))
        n == Len(toks)
        dropped == IF n > 2 /\ toks[1] \in HONORIFICS THEN 1 ELSE 0
        m == n - dropped
        taken == IF m > 1 /\ toks[n] \in SUFFIX_KEYS THEN 1 ELSE 0
        lo == dropped + 1
        hi == n - taken
        p == ret.value
    IN /\ p.suffix = (IF taken = 1
                      THEN (IF toks[n] = S("JUNIOR") THEN S("JR")
                            ELSE IF toks[n] = S("SENIOR") THEN S("SR")
                            ELSE toks[n])
                      ELSE <<>>)
       /\ n = 0 => p.given = <<>> /\ p.family = <<>> /\ p.middles = <<>>
       /\ n > 0 => /\ p.given = toks[lo]
                   /\ p.family = toks[hi]
                   /\ p.middles = [i \in 1..(hi - lo - 1) |-> toks[lo + i]]
       /\ hi = lo => p.given = p.family /\ p.middles = <<>>

\* an honorific was dropped and a suffix was taken, an inner honorific kept
C9_Witness ==
  /\ op = "normalize_name"
  /\ args.name = S("Mr. Ann dr Junior")
  /\ ret.value = ParsedName(S("ANN"), <<>>, S("DR"), S("JR"))

(***************************************************************************)
(* Date of birth                                                           *)
(***************************************************************************)

\* re.match(r"^\d{4}-\d{2}-\d{2}$", dob); $ also matches before a final
\* newline
MatchesDobPattern(dob) ==
  LET body == IF dob # <<>> /\ dob[Len(dob)] = 10
              THEN SubSeq(dob, 1, Len(dob) - 1) ELSE dob
  IN /\ Len(body) = 10
     /\ \A i \in {1, 2, 3, 4, 6, 7, 9, 10} : IsDigit(body[i])
     /\ body[5] = 45
     /\ body[8] = 45

RECURSIVE ParseInt(_, _)
\* int(digits), acc the value read so far
ParseInt(digits, acc) ==
  IF digits = <<>> THEN acc
  ELSE ParseInt(Tail(digits), 10 * acc + DigitValue(digits[1]))

\* a plausible slip: the day checked against 0..31
normalize_dob_day0(dob0) ==
  LET Validate(dob, year, month, day) ==
        IF ~MatchesDobPattern(dob) THEN Raise("ValueError")
        ELSE IF ~(1800 <= year /\ year <= 2100) THEN Raise("ValueError")
        ELSE IF ~(1 <= month /\ month <= 12) THEN Raise("ValueError")
        ELSE IF ~(0 <= day /\ day <= 31) THEN Raise("ValueError")
        ELSE Return(dob)
      Parse(dob) ==
        Validate(dob, ParseInt(SubSeq(dob, 1, 4), 0), ParseInt(SubSeq(dob, 6, 7), 0),
                 ParseInt(SubSeq(dob, 9, 10), 0))
  IN Parse(Strip(dob0))

normalize_dob(dob0) ==
  LET Validate(dob, year, month, day) ==
        IF ~MatchesDobPattern(dob) THEN Raise("ValueError")
        ELSE IF ~(1800 <= year /\ year <= 2100) THEN Raise("ValueError")
        ELSE IF ~(1 <= month /\ month <= 12) THEN Raise("ValueError")
        ELSE IF ~(1 <= day /\ day <= 31) THEN Raise("ValueError")
        ELSE Return(dob)
      \* year, month, day = map(int, dob.split("-")), once the pattern matched
      Parse(dob) ==
        Validate(dob, ParseInt(SubSeq(dob, 1, 4), 0), ParseInt(SubSeq(dob, 6, 7), 0),
                 ParseInt(SubSeq(dob, 9, 10), 0))
  IN Parse(Strip(dob0))

(***************************************************************************)
(* Phones                                                                  *)
(***************************************************************************)

\* re.sub(r"\D", "", phone)
Digits(phone) == SelectSeq(phone, IsDigit)

\* a dict with the keys that have a non-empty entry in all
DictOf(all) == [k \in {k \in DOMAIN all : all[k] # <<>>} |-> all[k]]

normalize_phone(phone, default_country) ==
  LET Format(digits) ==
        IF digits = <<>> THEN <<>>
        ELSE IF default_country = "US" /\ Len(digits) = 11 /\ digits[1] = 49
        THEN <<43>> \o digits
        ELSE IF default_country = "US" /\ Len(digits) = 10
        THEN <<43, 49>> \o digits
        ELSE IF Len(digits) >= 10 THEN <<43>> \o digits
        ELSE digits
  IN Format(Digits(phone))

phone_variants(phone, default_country) ==
  LET Variants(e164, digits) ==
        DictOf([PHONE_E164 |-> e164,
                PHONE_NATIONAL |->
                  IF Len(e164) = 12 /\ SubSeq(e164, 1, 2) = <<43, 49>>
                  THEN SubSeq(e164, 3, Len(e164))
                  ELSE digits,
                PHONE_LAST10 |->
                  IF Len(digits) >= 10
                  THEN SubSeq(digits, Len(digits) - 9, Len(digits))
                  ELSE <<>>])
  IN Variants(normalize_phone(phone, default_country), Digits(phone))

(***************************************************************************)
(* Identifier numbers                                                      *)
(***************************************************************************)

LongEnough(run) == Len(run) >= 4

\* re.findall(r"\d{4,}", idno)
FindDigitSequences(idno) == SelectSeq(Runs(idno, IsDigit), LongEnough)

Last(seq, n) == SubSeq(seq, Len(seq) - n + 1, Len(seq))

\* a plausible slip: the first digits of a run taken instead of the last
normalize_idno_first(idno) ==
  LET VariantsOf(seq) == {SubSeq(seq, 1, n) : n \in {n \in {4, 5, 6} : Len(seq) >= n}}
      Variants(sequences) == UNION {VariantsOf(sequences[i]) : i \in 1..Len(sequences)}
  IN SortedStrings(Variants(FindDigitSequences(idno)))

normalize_idno(idno) ==
  LET VariantsOf(seq) ==
        (IF Len(seq) >= 4 THEN {Last(seq, 4)} ELSE {})
        \cup (IF Len(seq) >= 5 THEN {Last(seq, 5)} ELSE {})
        \cup (IF Len(seq) >= 6 THEN {Last(seq, 6)} ELSE {})
      Variants(sequences) == UNION {VariantsOf(sequences[i]) : i \in 1..Len(sequences)}
  IN SortedStrings(Variants(FindDigitSequences(idno)))

(***************************************************************************)
(* Addresses                                                               *)
(***************************************************************************)

\* an address argument is a str or a dict
StrAddress(text) == [kind |-> "str", text |-> text]

DictAddress(fields) == [kind |-> "dict", fields |-> fields]

StructuredAddress(line1, line2, city, state, postal_code, country) ==
  [line1 |-> line1, line2 |-> line2, city |-> city, state |-> state,
   postal_code |-> postal_code, country |-> country]

\* the default of StructuredAddress.country and of address.get("country")
DEFAULT_COUNTRY == S("US")

\* dict.get(key, default)
Get(dict, key, default) == IF key \in DOMAIN dict THEN dict[key] ELSE default

\* str.split(sep) for a one-character separator
SplitOn(s, sep) ==
  LET Pieces(cuts) == [k \in 1..(Len(cuts) - 1) |-> SubSeq(s, cuts[k] + 1, cuts[k + 1] - 1)]
  IN Pieces(<<0>> \o Indices(s, LAMBDA i : s[i] = sep) \o <<Len(s) + 1>>)

\* the longest suffix of s made of A-Z and 0-9
TrailingAlnum(s) ==
  LET After(others) ==
        IF others = <<>> THEN s ELSE SubSeq(s, others[Len(others)] + 1, Len(s))
  IN After(Indices(s, LAMBDA i : ~IsAsciiUpperOrDigit(s[i])))

\* group 1 of re.search(r"([A-Z0-9]{2,})\s*$", s), empty when there is no match
PostalMatch(s) ==
  LET Group(run) == IF Len(run) >= 2 THEN run ELSE <<>>
  IN Group(TrailingAlnum(RStrip(s)))

RECURSIVE ReplaceAll(_, _, _)
\* str.replace(old, new) for a non-empty old
ReplaceAll(s, old, new) ==
  IF Len(s) < Len(old) THEN s
  ELSE IF SubSeq(s, 1, Len(old)) = old
       THEN new \o ReplaceAll(SubSeq(s, Len(old) + 1, Len(s)), old, new)
       ELSE <<s[1]>> \o ReplaceAll(Tail(s), old, new)

parse_address(address) ==
  IF address.kind = "dict"
  THEN StructuredAddress(Get(address.fields, "line1", <<>>),
                         Get(address.fields, "line2", <<>>),
                         Get(address.fields, "city", <<>>),
                         Get(address.fields, "state", <<>>),
                         Get(address.fields, "postal_code", <<>>),
                         Get(address.fields, "country", DEFAULT_COUNTRY))
  ELSE
    LET \* 3+ parts: assume line1, city, state/postal
        StatePostal(parts, state_postal, postal_code) ==
          StructuredAddress(parts[1], <<>>, parts[2],
                            IF postal_code # <<>>
                            THEN Strip(ReplaceAll(state_postal, postal_code, <<>>))
                            ELSE state_postal,
                            postal_code, DEFAULT_COUNTRY)
        Heuristic(normalized, parts) ==
          IF Len(parts) >= 3 THEN StatePostal(parts, parts[3], PostalMatch(parts[3]))
          ELSE IF Len(parts) = 2
          THEN StructuredAddress(parts[1], <<>>, parts[2], <<>>, <<>>, DEFAULT_COUNTRY)
          ELSE IF Len(parts) = 1
          THEN StructuredAddress(parts[1], <<>>, <<>>, <<>>, <<>>, DEFAULT_COUNTRY)
          ELSE StructuredAddress(normalized, <<>>, <<>>, <<>>, <<>>, DEFAULT_COUNTRY)
        \* [p.strip() for p in normalized.split(",") if p.strip()]
        Parts(raw) == SelectSeq([i \in 1..Len(raw) |-> Strip(raw[i])], NonEmpty)
        Normalized(normalized) == Heuristic(normalized, Parts(SplitOn(normalized, 44)))
    IN Normalized(normalize_string(address.text))

\* ADDR_ABBREVS.get(word, word)
ADDR_ABBREVS(word) ==
  LET long_forms ==
        {"STREET", "AVENUE", "ROAD", "BOULEVARD", "DRIVE", "LANE", "COURT", "PLACE",
         "APARTMENT", "SUITE"}
      short_form ==
        [STREET |-> "ST", AVENUE |-> "AVE", ROAD |-> "RD", BOULEVARD |-> "BLVD",
         DRIVE |-> "DR", LANE |-> "LN", COURT |-> "CT", PLACE |-> "PL",
         APARTMENT |-> "APT", SUITE |-> "STE"]
      Short(found) == IF found = {} THEN word ELSE S(short_form[CHOOSE f \in found : TRUE])
  IN Short({long_form \in long_forms : S(long_form) = word})

\* The normalized text holds only A-Z, 0-9 and single spaces, so \bLONG\b
\* matches exactly the words equal to LONG; no short form is a long form.
normalize_address_component(s) ==
  LET Abbreviated(words) == Join(<<32>>, [i \in 1..Len(words) |-> ADDR_ABBREVS(words[i])])
  IN Abbreviated(Split(normalize_string(s)))

UNIT_WORDS == {S(word) : word \in {"APT", "UNIT", "STE"}}

RECURSIVE WordsBeforeUnit(_)
WordsBeforeUnit(words) ==
  IF words = <<>> \/ words[1] \in UNIT_WORDS THEN <<>>
  ELSE <<words[1]>> \o WordsBeforeUnit(Tail(words))

\* re.split(r"\b(APT|UNIT|STE)\b", line1)[0].strip() on a normalized line1
NoUnit(line1) == Join(<<32>>, WordsBeforeUnit(Split(line1)))

address_variants(address) ==
  LET Variants(line1, city, state, postal, no_unit) ==
        DictOf([
          ADDR_LINE1_POSTAL |->
            IF line1 # <<>> /\ postal # <<>> THEN line1 \o <<124>> \o postal ELSE <<>>,
          ADDR_LINE1_CITY_STATE |->
            IF line1 # <<>> /\ city # <<>> /\ state # <<>>
            THEN line1 \o <<124>> \o city \o <<124>> \o state ELSE <<>>,
          ADDR_LINE1_CITY_STATE_POSTAL |->
            IF line1 # <<>> /\ city # <<>> /\ state # <<>> /\ postal # <<>>
            THEN line1 \o <<124>> \o city \o <<124>> \o state \o <<124>> \o postal
            ELSE <<>>,
          ADDR_NO_UNIT |->
            IF no_unit # <<>> /\ no_unit # line1 THEN no_unit ELSE <<>>])
      Components(line1, city, state, postal) ==
        Variants(line1, city, state, postal, NoUnit(line1))
      Parsed(parsed) ==
        Components(normalize_address_component(parsed.line1), normalize_string(parsed.city),
                   normalize_string(parsed.state), normalize_string(parsed.postal_code))
  IN Parsed(parse_address(address))

(***************************************************************************)
(* Tuples                                                                  *)
(***************************************************************************)

MAX_TUPLES == 256

DOMAIN_PREFIX == S("EMTP|v1|")

FIELD_ORDER == <<"NAME", "DOB", "PHONE", "ADDR", "ID">>

\* the characters of each field name
FIELD_NAME == [f \in {"NAME", "DOB", "PHONE", "ADDR", "ID"} |-> S(f)]

\* the values of a dict, as a set
Values(dict) == {dict[k] : k \in DOMAIN dict}

\* a plausible slip: the fields joined in the alphabetical order of their names
build_tuple_alphabetical(fields) ==
  LET Present(field_name) == field_name \in DOMAIN fields /\ fields[field_name] # <<>>
      Parts(present) ==
        [i \in 1..Len(present) |-> FIELD_NAME[present[i]] \o <<61>> \o fields[present[i]]]
  IN Join(<<124>>, Parts(SelectSeq(<<"ADDR", "DOB", "ID", "NAME", "PHONE">>, Present)))

build_tuple(fields) ==
  LET Present(field_name) == field_name \in DOMAIN fields /\ fields[field_name] # <<>>
      Parts(present) ==
        [i \in 1..Len(present) |-> FIELD_NAME[present[i]] \o <<61>> \o fields[present[i]]]
  IN Join(<<124>>, Parts(SelectSeq(FIELD_ORDER, Present)))

\* name_variants of generate_tuples, the empty variants removed
name_variants(name) ==
  LET NonBlank(all) == [k \in {k \in DOMAIN all : Strip(all[k]) # <<>>} |-> all[k]]
      Variant(k) ==
        CASE k = "full" -> full(name)
          [] k = "given_family" -> given_family(name)
          [] k = "initials_family" -> initials_family(name)
          [] k = "given_family_suffix" -> given_family_suffix(name)
          [] k = "collapsed_initials" ->
               <<name.given[1]>> \o Concat(MiddleInitials(name)) \o <<32>> \o name.family
  IN NonBlank([k \in {"full", "given_family", "initials_family"}
                       \cup (IF name.suffix # <<>> THEN {"given_family_suffix"} ELSE {})
                       \cup (IF name.middles # <<>> /\ name.given # <<>>
                             THEN {"collapsed_initials"} ELSE {}) |-> Variant(k)])

\* id_vars of generate_tuples, as a set
id_variants(idnos) == UNION {Range(normalize_idno(idnos[i])) : i \in 1..Len(idnos)}

\* a plausible slip: the ID families built from every name variant
NameIdTuplesAll(name, dob, id_vars) ==
  {build_tuple([NAME |-> nv, DOB |-> dob, ID |-> iv]) :
     nv \in Values(name_variants(name)), iv \in id_vars}

\* the NAME+DOB+ID family
NameIdTuples(name, dob, id_vars) ==
  LET With(nv) ==
        IF nv # <<>>
        THEN {build_tuple([NAME |-> nv, DOB |-> dob, ID |-> iv]) : iv \in id_vars}
        ELSE {}
  IN With(Get(name_variants(name), "given_family", given_family(name)))

\* the set tuples of generate_tuples before it is sorted and capped
raw_tuples(name, dob, phones, addresses, idnos) ==
  LET \* the entries of the dicts of a list under the given keys
      Entries(list, types) ==
        UNION {{list[i][k] : k \in types \cap DOMAIN list[i]} : i \in 1..Len(list)}
      Families(nvs, phone_vars_list, addr, id_vars) ==
        {build_tuple([NAME |-> nv, DOB |-> dob]) : nv \in nvs}
        \cup {build_tuple([DOB |-> dob, PHONE |-> pv]) :
                pv \in Entries(phone_vars_list, {"PHONE_E164", "PHONE_LAST10"})}
        \cup {build_tuple([DOB |-> dob, ADDR |-> av]) : av \in addr}
        \cup {build_tuple([NAME |-> nv, DOB |-> dob, PHONE |-> pv]) :
                nv \in nvs, pv \in Entries(phone_vars_list, {"PHONE_E164", "PHONE_NATIONAL"})}
        \cup {build_tuple([NAME |-> nv, DOB |-> dob, ADDR |-> av]) : nv \in nvs, av \in addr}
        \cup (IF id_vars # {}
              THEN NameIdTuples(name, dob, id_vars)
                   \cup {build_tuple([DOB |-> dob, ID |-> iv]) : iv \in id_vars}
                   \cup {build_tuple([DOB |-> dob, PHONE |-> pv, ID |-> iv]) :
                           pv \in Entries(phone_vars_list, {"PHONE_LAST10"}), iv \in id_vars}
              ELSE {})
  IN Families(Values(name_variants(name)),
              [i \in 1..Len(phones) |-> phone_variants(phones[i], "US")],
              Entries([i \in 1..Len(addresses) |-> address_variants(addresses[i])],
                      {"ADDR_LINE1_POSTAL", "ADDR_LINE1_CITY_STATE"}),
              id_variants(idnos))

\* seq[:n]
Prefix(seq, n) == SubSeq(seq, 1, IF Len(seq) < n THEN Len(seq) ELSE n)

\* a plausible slip: the cap applied to the end of the sorted list
generate_tuples_keep_last(name, dob, phones, addresses, idnos) ==
  LET Cap(sorted) ==
        IF Len(sorted) <= MAX_TUPLES THEN sorted
        ELSE SubSeq(sorted, Len(sorted) - MAX_TUPLES + 1, Len(sorted))
  IN Cap(SortedStrings(raw_tuples(name, dob, phones, addresses, idnos)))

generate_tuples(name, dob, phones, addresses, idnos) ==
  Prefix(SortedStrings(raw_tuples(name, dob, phones, addresses, idnos)), MAX_TUPLES)

(***************************************************************************)
(* Tokens                                                                  *)
(***************************************************************************)

\* HMAC pads a key shorter than the hash block with zero bytes, so trailing
\* zero bytes of a key do not count (keys here are shorter than the block)
PaddedKey(key) ==
  LET UpTo(nonzero) == IF nonzero = <<>> THEN <<>> ELSE SubSeq(key, 1, nonzero[Len(nonzero)])
  IN UpTo(Indices(key, LAMBDA i : key[i] # 0))

\* hmac.new(key, message, sha256).hexdigest(), SHA-256 taken to be collision
\* free: the digest is stood for by an injective encoding of the padded key
\* and the message
HmacSha256Hex(key, message) ==
  LET Encode(padded) == <<Len(padded)>> \o padded \o message
  IN Encode(PaddedKey(key))

compute_token(key, tuple_str) == HmacSha256Hex(key, DOMAIN_PREFIX \o tuple_str)

\* a plausible slip: only the first key used
generate_tokens_first_key(keys, tuples) ==
  {compute_token(keys[1], tuples[j]) : j \in 1..Len(tuples)}

generate_tokens(keys, tuples) ==
  {compute_token(keys[i], tuples[j]) : i \in 1..Len(keys), j \in 1..Len(tuples)}

(***************************************************************************)
(* process_record                                                          *)
(***************************************************************************)

\* the arguments of a process_record call; None for a list is the empty list
Record(full_name, dob, phones, addresses, idnos, keys) ==
  [full_name |-> full_name, dob |-> dob, phones |-> phones,
   addresses |-> addresses, idnos |-> idnos, keys |-> keys]

process_record(a) ==
  LET \* tokens, if keys provided
      Tokens(result, tokens) ==
        Return([k \in DOMAIN result \cup {"tokens", "token_count"} |->
                  CASE k = "tokens" -> SortedStrings(tokens)
                    [] k = "token_count" -> Cardinality(tokens)
                    [] OTHER -> result[k]])
      Result(result) ==
        IF a.keys # <<>> THEN Tokens(result, generate_tokens(a.keys, result.tuples))
        ELSE Return(result)
      Tuples(parsed_name, normalized_dob, tuples) ==
        Result([normalized_name |->
                  [given |-> parsed_name.given, middles |-> parsed_name.middles,
                   family |-> parsed_name.family, suffix |-> parsed_name.suffix,
                   full |-> full(parsed_name),
                   given_family |-> given_family(parsed_name),
                   initials_family |-> initials_family(parsed_name)],
                normalized_dob |-> normalized_dob,
                tuples |-> tuples,
                tuple_count |-> Len(tuples)])
      \* normalize_dob raises before anything is built
      Normalized(parsed_name, dob_outcome) ==
        IF dob_outcome.raised THEN dob_outcome
        ELSE Tuples(parsed_name, dob_outcome.value,
                    generate_tuples(parsed_name, dob_outcome.value, a.phones,
                                    a.addresses, a.idnos))
  IN Normalized(normalize_name(a.full_name), normalize_dob(a.dob))

(***************************************************************************)
(* Specification of process_record calls: a caller builds a record up,     *)
(* one element at a time, and has it processed after every change          *)
(***************************************************************************)

\* the number of list elements a record is grown to
MaxItems == 2

\* the number of digit runs of the long identifier
BulkRuns == 20

RecordNames == {S("Mr. Ann Q Lee Jr"), S("Lee"), S("")}

ValidDob == S("1990-02-31")

PhoneInputs == {S("(212) 555-0100"), S("555-0100")}

TolkienAddress ==
  DictAddress([line1 |-> S("20 Northmoor Rd"), city |-> S("Oxford"),
               state |-> S("OX"), postal_code |-> S("OX2 6")])

AddressInputs == {TolkienAddress, StrAddress(S("10 Main St, Springfield, IL 62704"))}

IdnoInputs == {S("ID-123456789"), S("12 4444")}

KeyInputs == {<<1>>, <<2, 0>>}

\* one identifier with BulkRuns runs of six digits: 100001 100002 ...
BulkIdno ==
  Join(<<32>>, [k \in 1..BulkRuns |->
                  <<49, 48, 48, 48, 48 + (k \div 10), 48 + (k % 10)>>])

\* a record whose raw tuple set is larger than MAX_TUPLES
LargeRecord ==
  Record(S("Mr. Ann Q Lee Jr"), ValidDob,
         <<S("(212) 555-0100"), S("+44 20 7946 0958")>>, <<TolkienAddress>>,
         <<BulkIdno>>, <<>>)

ItemCount(a) == Len(a.phones) + Len(a.addresses) + Len(a.idnos) + Len(a.keys)

InitRecord ==
  /\ op = "start"
  /\ args \in {Record(n, ValidDob, <<>>, <<>>, <<>>, <<>>) : n \in RecordNames}
              \cup {Record(S("Lee"), S("1990-13-01"), <<>>, <<>>, <<>>, <<>>)}
              \cup {LargeRecord}
  /\ ret = None

\* the caller has the record processed as it stands
CallProcessRecord ==
  /\ op = "start"
  /\ op' = "process_record"
  /\ ret' = process_record(args)
  /\ UNCHANGED args

\* the caller calls process_record again with the changed record
Process(a, how) ==
  /\ op # "start"
  /\ args' = a
  /\ ret' = process_record(a)
  /\ op' = how

AddPhone ==
  /\ ItemCount(args) < MaxItems
  /\ \E p \in PhoneInputs : Process([args EXCEPT !.phones = Append(@, p)], "process_record")

AddAddress ==
  /\ ItemCount(args) < MaxItems
  /\ \E a \in AddressInputs : Process([args EXCEPT !.addresses = Append(@, a)], "process_record")

AddIdno ==
  /\ ItemCount(args) < MaxItems
  /\ \E i \in IdnoInputs : Process([args EXCEPT !.idnos = Append(@, i)], "process_record")

AddKey ==
  /\ ItemCount(args) < MaxItems
  /\ \E k \in KeyInputs : Process([args EXCEPT !.keys = Append(@, k)], "process_record")

Swapped(list, i) ==
  [k \in 1..Len(list) |-> IF k = i THEN list[i + 1] ELSE IF k = i + 1 THEN list[i] ELSE list[k]]

\* the caller exchanges two neighbours of one of the lists
Reorder ==
  \E f \in {"phones", "addresses", "idnos", "keys"} :
    \E i \in 1..(Len(args[f]) - 1) :
      /\ args[f][i] # args[f][i + 1]
      /\ Process([args EXCEPT ![f] = Swapped(@, i)], "reorder")

NextRecord == CallProcessRecord \/ AddPhone \/ AddAddress \/ AddIdno \/ AddKey \/ Reorder

SpecRecord == InitRecord /\ [][NextRecord]_vars

(***************************************************************************)
(* Properties of the tuple list                                            *)
(***************************************************************************)

\* No value holds '=' (names, addresses and identifiers are normalized, a
\* phone is digits and '+', a date is digits and '-'), so the '=' of a tuple
\* are those of its terms.  The terms of a tuple, in order: each the field
\* name in front of an '=', back to the preceding '|', and the value behind
\* it, up to the '|' in front of the next term's name.
Terms(t) ==
  LET eqs == Indices(t, LAMBDA i : t[i] = 61)
      NameStart(e) ==
        LET bars == Indices(t, LAMBDA i : t[i] = 124 /\ i < e)
        IN IF bars = <<>> THEN 1 ELSE bars[Len(bars)] + 1
      ValueEnd(k) == IF k = Len(eqs) THEN Len(t) ELSE NameStart(eqs[k + 1]) - 2
  IN [k \in 1..Len(eqs) |->
        [start |-> NameStart(eqs[k]),
         field |-> SubSeq(t, NameStart(eqs[k]), eqs[k] - 1),
         value |-> SubSeq(t, eqs[k] + 1, ValueEnd(k))]]

\* the place of a field name in the canonical order, 0 for any other text
FieldRank(name) ==
  CASE name = S("NAME") -> 1
    [] name = S("DOB") -> 2
    [] name = S("PHONE") -> 3
    [] name = S("ADDR") -> 4
    [] name = S("ID") -> 5
    [] OTHER -> 0

HasField(terms, name) == \E k \in 1..Len(terms) : terms[k].field = name

ValueOf(terms, name) == terms[CHOOSE k \in 1..Len(terms) : terms[k].field = name].value

Returned == op \in {"process_record", "reorder"} /\ ~ret.raised

\* C1: the tuple list is strictly ascending (so without duplicates), has at
\* most 256 entries, and holds exactly the members of the raw set that have
\* fewer than 256 smaller members: the whole set when it has at most 256, its
\* first 256 in sorted order when it has more
C1_CapInvariant ==
  Returned =>
    LET raw == raw_tuples(normalize_name(args.full_name), ret.value.normalized_dob,
                          args.phones, args.addresses, args.idnos)
        out == ret.value.tuples
    IN /\ Len(out) <= 256
       /\ \A i \in 1..(Len(out) - 1) : StrLess(out[i], out[i + 1])
       /\ Range(out) = {x \in raw : Cardinality({y \in raw : StrLess(y, x)}) < 256}
       /\ Cardinality(raw) <= 256 => Len(out) = Cardinality(raw)
       /\ Cardinality(raw) > 256 => Len(out) = 256

\* a record whose raw set has more than 256 members was processed
C1_Witness ==
  /\ Returned
  /\ Cardinality(raw_tuples(normalize_name(args.full_name), ret.value.normalized_dob,
                            args.phones, args.addresses, args.idnos)) > 256
  /\ ret.value.tuple_count = 256

\* C2: every tuple is a '|'-joined sequence of FIELD=value terms that starts
\* with a term, whose field names are among NAME, DOB, PHONE, ADDR, ID and
\* strictly in that order, and none of whose values is empty
C2_FieldOrder ==
  Returned =>
    \A n \in 1..Len(ret.value.tuples) :
      LET terms == Terms(ret.value.tuples[n])
      IN /\ terms # <<>>
         /\ terms[1].start = 1
         /\ \A k \in 1..Len(terms) : FieldRank(terms[k].field) > 0 /\ terms[k].value # <<>>
         /\ \A k \in 1..(Len(terms) - 1) :
              FieldRank(terms[k].field) < FieldRank(terms[k + 1].field)

\* tuples of three terms with a PHONE, with an ADDR and with an ID were built
C2_Witness ==
  /\ Returned
  /\ \E n \in 1..Len(ret.value.tuples) :
       LET terms == Terms(ret.value.tuples[n])
       IN Len(terms) = 3 /\ HasField(terms, S("NAME")) /\ HasField(terms, S("ADDR"))
  /\ \E n \in 1..Len(ret.value.tuples) :
       LET terms == Terms(ret.value.tuples[n])
       IN Len(terms) = 3 /\ HasField(terms, S("PHONE")) /\ HasField(terms, S("ID"))

\* C5: a tuple with NAME and ID has the given_family variant as its NAME and
\* neither PHONE nor ADDR; a tuple with PHONE and ID has no NAME and the last
\* 10 digits of one of the record's phones as its PHONE; a tuple with an ID
\* exists only if some identifier yields an ID variant
C5_IdFamilies ==
  Returned =>
    LET name == normalize_name(args.full_name)
        given_family_name == Strip(name.given \o <<32>> \o name.family)
        last10s == {Last(Digits(args.phones[i]), 10) :
                      i \in {i \in 1..Len(args.phones) : Len(Digits(args.phones[i])) >= 10}}
        some_id == \E i \in 1..Len(args.idnos) : normalize_idno(args.idnos[i]) # <<>>
    IN \A n \in 1..Len(ret.value.tuples) :
         LET terms == Terms(ret.value.tuples[n])
         IN /\ HasField(terms, S("NAME")) /\ HasField(terms, S("ID")) =>
                 /\ ValueOf(terms, S("NAME")) = given_family_name
                 /\ ~HasField(terms, S("PHONE"))
                 /\ ~HasField(terms, S("ADDR"))
            /\ HasField(terms, S("PHONE")) /\ HasField(terms, S("ID")) =>
                 /\ ~HasField(terms, S("NAME"))
                 /\ ValueOf(terms, S("PHONE")) \in last10s
            /\ HasField(terms, S("ID")) => some_id

\* a name with a middle name and a suffix, a phone and an identifier gave
\* both a NAME+DOB+ID and a PHONE+DOB+ID tuple
C5_Witness ==
  /\ Returned
  /\ normalize_name(args.full_name).middles # <<>>
  /\ \E n \in 1..Len(ret.value.tuples) :
       LET terms == Terms(ret.value.tuples[n])
       IN HasField(terms, S("NAME")) /\ HasField(terms, S("ID"))
  /\ \E n \in 1..Len(ret.value.tuples) :
       LET terms == Terms(ret.value.tuples[n])
       IN HasField(terms, S("PHONE")) /\ HasField(terms, S("ID"))

\* the records a and b differ at most in the order and the multiplicity of
\* the elements of their lists
SameUpToOrder(a, b) ==
  /\ a.full_name = b.full_name
  /\ a.dob = b.dob
  /\ \A f \in {"phones", "addresses", "idnos", "keys"} : Range(a[f]) = Range(b[f])

\* the outputs of a call that C10 names
Outputs(r) ==
  IF r.raised THEN <<"raised">>
  ELSE <<r.value.tuples, r.value.tuple_count,
         Get(r.value, "tokens", "absent"), Get(r.value, "token_count", "absent")>>

\* C10: a call whose record differs from that of the call before only in the
\* order or the multiplicity of list elements returns the same tuple list,
\* tuple count, token list and token count
C10_OrderIndependent ==
  [][op # "start" /\ SameUpToOrder(args, args') => Outputs(ret') = Outputs(ret)]_vars

\* two different keys were exchanged and tokens were returned
C10_Witness ==
  /\ op = "reorder"
  /\ Len(args.keys) = 2
  /\ args.keys[1] # args.keys[2]
  /\ ~ret.raised
  /\ ret.value.token_count = 2 * ret.value.tuple_count

(***************************************************************************)
(* Specification of calls with one date of birth                           *)
(***************************************************************************)

\* 1799, 1800, 1990, 2100, 2101, three digits, a fullwidth digit one
DobYears ==
  {S("1799"), S("1800"), S("1990"), S("2100"), S("2101"), S("199"),
   <<65297, 57, 57, 48>>}

DobMonths == {S("00"), S("01"), S("02"), S("12"), S("13"), S("2")}

DobDays == {S("00"), S("01"), S("31"), S("32"), S("1a")}

\* '-' and '/'
DobSeparators == {45, 47}

DobLeftPads == {<<>>, <<32>>}

\* nothing, a newline, a letter
DobRightPads == {<<>>, <<10>>, S("x")}

DobInputs ==
  {l \o y \o <<sep>> \o m \o <<sep>> \o d \o r :
     l \in DobLeftPads, y \in DobYears, sep \in DobSeparators, m \in DobMonths,
     d \in DobDays, r \in DobRightPads}

InitDob ==
  /\ op = "start"
  /\ args \in {Record(S("Ann Lee"), dob, <<>>, <<>>, <<>>, <<>>) : dob \in DobInputs}
  /\ ret = None

CallNormalizeDob ==
  /\ op = "start"
  /\ op' = "normalize_dob"
  /\ ret' = normalize_dob(args.dob)
  /\ UNCHANGED args

NextDob == CallNormalizeDob \/ CallProcessRecord

SpecDob == InitDob /\ [][NextDob]_vars

\* d is four digits, '-', two digits, '-', two digits, with the year in
\* 1800..2100, the month in 1..12 and the day in 1..31
AcceptableDob(d) ==
  /\ Len(d) = 10
  /\ \A i \in {1, 2, 3, 4, 6, 7, 9, 10} : IsDigit(d[i])
  /\ d[5] = 45
  /\ d[8] = 45
  /\ LET v == [i \in 1..10 |-> IF IsDigit(d[i]) THEN DigitValue(d[i]) ELSE 0]
         year == 1000 * v[1] + 100 * v[2] + 10 * v[3] + v[4]
         month == 10 * v[6] + v[7]
         day == 10 * v[9] + v[10]
     IN 1800 <= year /\ year <= 2100 /\ 1 <= month /\ month <= 12 /\ 1 <= day /\ day <= 31

\* the call raised and returned nothing at all
RaisedOnly == ret.raised /\ "value" \notin DOMAIN ret

\* C3 as stated: the call fails whenever the supplied string itself is not an
\* acceptable YYYY-MM-DD, and otherwise returns the string unchanged
C3_ExactForm ==
  /\ op = "normalize_dob" =>
       IF AcceptableDob(args.dob) THEN ret = Return(args.dob) ELSE RaisedOnly
  /\ op = "process_record" =>
       IF AcceptableDob(args.dob)
       THEN ~ret.raised /\ ret.value.normalized_dob = args.dob
       ELSE RaisedOnly

\* C3 amended: the call fails whenever the supplied string without its
\* leading and trailing whitespace is not an acceptable YYYY-MM-DD, and
\* otherwise returns that stripped string; a failed process_record returns
\* nothing
C3_StrippedForm ==
  LET first == CHOOSE i \in 1..(Len(args.dob) + 1) :
                 /\ \A j \in 1..(i - 1) : IsSpace(args.dob[j])
                 /\ i <= Len(args.dob) => ~IsSpace(args.dob[i])
      last == CHOOSE i \in 0..Len(args.dob) :
                /\ \A j \in (i + 1)..Len(args.dob) : IsSpace(args.dob[j])
                /\ i >= 1 => ~IsSpace(args.dob[i])
      d == SubSeq(args.dob, first, last)
  IN /\ op = "normalize_dob" =>
          IF AcceptableDob(d) THEN ret = Return(d) ELSE RaisedOnly
     /\ op = "process_record" =>
          IF AcceptableDob(d)
          THEN ~ret.raised /\ ret.value.normalized_dob = d
          ELSE RaisedOnly

\* a calendar-impossible date with whitespace around it was accepted
C3_Witness ==
  /\ op = "process_record"
  /\ args.dob = <<32>> \o S("1990-02-31") \o <<10>>
  /\ ~ret.raised
  /\ ret.value.normalized_dob = S("1990-02-31")

(***************************************************************************)
(* Specification of phone calls                                            *)
(***************************************************************************)

MaxPhoneDigits == 12

\* n digits, the first one given
PhoneDigits(n, first) == [i \in 1..n |-> IF i = 1 THEN first ELSE 48 + (i % 10)]

\* the digits as typed: bare, with a leading '+', in groups of three with '-'
Typed(digits, style) ==
  CASE style = "bare" -> digits
    [] style = "plus" -> <<43>> \o digits
    [] style = "grouped" ->
         Concat([i \in 1..Len(digits) |->
                   IF i > 1 /\ i % 3 = 1 THEN <<45, digits[i]>> ELSE <<digits[i]>>])

PhoneStrings ==
  {Typed(PhoneDigits(n, first), style) :
     n \in 0..MaxPhoneDigits, first \in {48, 49, 50}, style \in {"bare", "plus", "grouped"}}

InitPhone ==
  /\ op = "start"
  /\ args \in [phone : PhoneStrings]
  /\ ret = None

CallNormalizePhone ==
  /\ op = "start"
  /\ op' = "normalize_phone"
  /\ ret' = Return(normalize_phone(args.phone, "US"))
  /\ UNCHANGED args

CallPhoneVariants ==
  /\ op = "start"
  /\ op' = "phone_variants"
  /\ ret' = Return(phone_variants(args.phone, "US"))
  /\ UNCHANGED args

NextPhone == CallNormalizePhone \/ CallPhoneVariants

SpecPhone == InitPhone /\ [][NextPhone]_vars

\* C4: with digit string d, the E.164 value is "+" d for 11 digits starting
\* with 1, "+1" d for 10 digits, "+" d for any other 10 or more digits, and
\* empty otherwise, in which case phone_variants has no PHONE_E164 entry; a
\* PHONE_E164 entry starts with "+"
C4_E164 ==
  LET d == SelectSeq(args.phone, LAMBDA c : c \in 48..57)
      e164 == IF Len(d) = 11 /\ d[1] = 49 THEN <<43>> \o d
              ELSE IF Len(d) = 10 THEN <<43, 49>> \o d
              ELSE IF Len(d) >= 10 THEN <<43>> \o d
              ELSE <<>>
  IN /\ op = "normalize_phone" => ret.value = e164
     /\ op = "phone_variants" =>
          /\ e164 = <<>> => "PHONE_E164" \notin DOMAIN ret.value
          /\ e164 # <<>> => /\ "PHONE_E164" \in DOMAIN ret.value
                            /\ ret.value["PHONE_E164"] = e164
          /\ "PHONE_E164" \in DOMAIN ret.value => ret.value["PHONE_E164"][1] = 43

(***************************************************************************)
(* Specification of normalize_idno calls                                   *)
(***************************************************************************)

MaxRunLen == 7

\* len consecutive digits counting up from start, then a separator
Segment(len, start, sep) == [i \in 1..len |-> 48 + ((start + i - 1) % 10)] \o sep

\* two segments; with no separator between them their runs are one run
IdnoStrings ==
  {Segment(l1, s1, sep1) \o Segment(l2, s2, sep2) :
     l1 \in 0..MaxRunLen, l2 \in 0..MaxRunLen, s1 \in {1, 5}, s2 \in {1, 5},
     sep1 \in {S("-"), S("A"), <<>>}, sep2 \in {<<>>, S("x")}}

InitIdno ==
  /\ op = "start"
  /\ args \in [idno : IdnoStrings]
  /\ ret = None

CallNormalizeIdno ==
  /\ op = "start"
  /\ op' = "normalize_idno"
  /\ ret' = Return(normalize_idno(args.idno))
  /\ UNCHANGED args

NextIdno == CallNormalizeIdno

SpecIdno == InitIdno /\ [][NextIdno]_vars

\* C7: normalize_idno returns, strictly ascending, exactly the last 4, last 5
\* and last 6 digits of every maximal run of digits that is that long
C7_IdVariants ==
  op = "normalize_idno" =>
    LET s == args.idno
        v == ret.value
        IsRun(i, j) ==
          /\ i <= j
          /\ \A k \in i..j : IsDigit(s[k])
          /\ i = 1 \/ ~IsDigit(s[i - 1])
          /\ j = Len(s) \/ ~IsDigit(s[j + 1])
        expected ==
          {SubSeq(s, x[2] - x[3] + 1, x[2]) :
             x \in {x \in (1..Len(s)) \X (1..Len(s)) \X {4, 5, 6} :
                      IsRun(x[1], x[2]) /\ x[2] - x[1] + 1 >= x[3]}}
    IN /\ Range(v) = expected
       /\ \A k \in 1..(Len(v) - 1) : StrLess(v[k], v[k + 1])

\* a run of 3 digits gave nothing and a run of 7 gave its last 4, 5 and 6
C7_Witness ==
  /\ op = "normalize_idno"
  /\ args.idno = S("123-5678901")
  /\ ret.value = <<S("678901"), S("78901"), S("8901")>>

(***************************************************************************)
(* Specification of free-form address calls                                *)
(***************************************************************************)

MaxAddrParts == 3

AddrParts == {<<>>, S("10 Main St"), S(" Springfield"), S("IL 62704"), S("Apt 4B")}

AddressTexts ==
  {Join(<<44>>, parts) : parts \in WordSeqsUpTo(AddrParts, MaxAddrParts) \ {<<>>}}

InitAddress ==
  /\ op = "start"
  /\ args \in [address : {StrAddress(text) : text \in AddressTexts}]
  /\ ret = None

CallParseAddress ==
  /\ op = "start"
  /\ op' = "parse_address"
  /\ ret' = Return(parse_address(args.address))
  /\ UNCHANGED args

CallAddressVariants ==
  /\ op = "start"
  /\ op' = "address_variants"
  /\ ret' = Return(address_variants(args.address))
  /\ UNCHANGED args

NextAddress == CallParseAddress \/ CallAddressVariants

SpecAddress == InitAddress /\ [][NextAddress]_vars

\* C8: a free-form address is split into its non-empty comma-separated
\* parts; 1 part is line1; 2 parts are line1 and city; of 3 or more, part 0
\* is line1, part 1 is city, the trailing run of 2 or more alphanumerics of
\* part 2 is postal_code and the rest of part 2 is state; so three parts give
\* an ADDR_LINE1_POSTAL entry
C8_FreeForm ==
  LET pieces == SplitOn(args.address.text, 44)
      parts == SelectSeq([i \in 1..Len(pieces) |-> normalize_string(pieces[i])], NonEmpty)
      postal == PostalMatch(parts[3])
      state == IF postal = <<>> THEN parts[3]
               ELSE Strip(SubSeq(parts[3], 1, Len(parts[3]) - Len(postal)))
      p == ret.value
  IN /\ op = "parse_address" /\ Len(parts) = 1 =>
          p.line1 = parts[1] /\ p.city = <<>> /\ p.state = <<>> /\ p.postal_code = <<>>
     /\ op = "parse_address" /\ Len(parts) = 2 =>
          p.line1 = parts[1] /\ p.city = parts[2] /\ p.state = <<>> /\ p.postal_code = <<>>
     /\ op = "parse_address" /\ Len(parts) >= 3 =>
          p.line1 = parts[1] /\ p.city = parts[2] /\ p.state = state /\ p.postal_code = postal
     /\ op = "address_variants" /\ Len(parts) = 3 => "ADDR_LINE1_POSTAL" \in DOMAIN p

====
